---------------------------- MODULE Spec2Model ----------------------------
(*************************************************************************)
(* Verification model of the taxonomy server: the streaming flattener    *)
(* (parse.ts), the cursor codec (pagination.ts) and the paginated        *)
(* children / search handlers in their three revisions: "first" (the     *)
(* children handler GET /entries/:parentHash), "main" (main.ts) and      *)
(* "later" (the handlers that call pagination.ts); and of the frontend:  *)
(* the search hook (useSearch.ts), the tree of search results            *)
(* (treeBuilder.ts) and the lazily loaded tree                           *)
(* (useTreeViewIntegration.ts, treeAtoms.ts, app.tsx).                   *)
(*                                                                       *)
(* Strings are sequences of byte values (ASCII codes), so that base64,   *)
(* JSON text, toLowerCase and SQLite's binary text comparison are        *)
(* computed the way the code computes them.                              *)
(*************************************************************************)
EXTENDS Integers, Sequences, FiniteSets, TLC

VARIABLES
    \* ---- cursor codec harness (pagination.ts)
    cpc,        \* "start" | "encoded" | "decoded"
    cx,         \* the composite key handed to encodeCursor: [name, hash]
    ctoken,     \* the token encodeCursor returned
    cdecoded,   \* what decodeCursor returned for ctoken
    \* ---- streaming flattener (parse.ts, parseXml)
    stack,      \* StackFrame[]: one frame per open synset element
    entries,    \* OutputEntry[]: the entries emitted so far
    pstate,     \* the promise: "pending" | "resolved" | "rejected"
    tags,       \* the sax parser's own stack of open element names
    \* ---- history of the stream (not read by the code)
    gstack,     \* the element number of each frame of stack
    gparent,    \* gparent[e]: the element enclosing synset e, 0 at top level
    gentry,     \* gentry[i]: the element entries[i] was emitted for
    gattrs,     \* gattrs[e]: the attributes synset e was opened with
    closes,     \* synset close events so far
    others,     \* non-synset elements opened so far
    \* ---- HTTP server (main.ts) and one client following its cursors
    nodes,      \* the nodes table
    spc,        \* the client: "idle" | "paging" | "done" | "probed" ("off": no server)
    req,        \* the client's request: [endpoint, rev, arg, limit]
    sent,       \* the cursor parameter of the last request
    resp,       \* the last response
    pages,      \* the data arrays of the responses so far, in order
    \* ---- frontend search (hooks/useSearch.ts, store/treeAtoms.ts)
    searchQuery,        \* searchQueryAtom
    searchResults,      \* searchResultsAtom
    searchPagination,   \* searchPaginationAtom: [cursor, hasMore, isLoading]
    timeoutId,          \* the pending debounce timer: <<>> or <<trimmedQuery>>
    fetching,           \* the searchEntries calls awaiting their response
    issued,             \* every searchEntries call so far, in order (history)
    \* ---- frontend tree (hooks/useTreeViewIntegration.ts, store/treeAtoms.ts)
    nodesAtom,          \* the hashes of the nodes stored
    nodeChildrenAtom,   \* parent hash -> child hashes in order
    nodePaginationAtom, \* hash -> [cursor, hasMore, isLoading, isInitialized]
    expandedNodesAtom,  \* the hashes of the expanded nodes
    isSearchMode,       \* isSearchModeAtom
    loading,            \* the fetchNodeChildren calls awaiting their response
    requested,          \* every fetchNodeChildren call so far, in order (history)
    failed,             \* the numbers of the calls that threw (history)
    reexpanded          \* nodes expanded again after their first page (history)

cvars == <<cpc, cx, ctoken, cdecoded>>
pvars == <<stack, entries, pstate, tags, gstack, gparent, gentry, gattrs, closes, others>>
svars == <<nodes, spc, req, sent, resp, pages>>
uvars == <<searchQuery, searchResults, searchPagination, timeoutId, fetching, issued>>
tvars == <<nodesAtom, nodeChildrenAtom, nodePaginationAtom, expandedNodesAtom,
           isSearchMode, loading, requested, failed, reexpanded>>
vars == <<cvars, pvars, svars, uvars, tvars>>

\* what the actions of one part leave alone
notc == <<pvars, svars, uvars, tvars>>
notp == <<cvars, svars, uvars, tvars>>
nots == <<cvars, pvars, uvars, tvars>>
notu == <<cvars, pvars, svars, tvars>>
nott == <<cvars, pvars, svars, uvars>>

-----------------------------------------------------------------------------
(* Bounds *)

\* longest name (in characters) of a composite key handed to the codec
MaxNameLen == 3

\* most synset elements of one input stream
MaxSynsets == 4

\* most non-synset elements (ImageNetStructure, releaseData) of one stream
MaxOthers == 1

\* the first MaxLacking synset elements of a stream may lack an attribute
MaxLacking == 1

\* rows of the nodes table
StoreSize == 3

\* largest limit parameter a client sends
MaxLimit == 2

\* most searchEntries calls of one run of the frontend
MaxSearches == 3

\* pages the search of one query has
MaxPages == 2

\* most fetchNodeChildren calls of one run of the frontend
MaxFetches == 4

\* children on one page of the children endpoint (the frontend asks for 100)
PageSize == 2

-----------------------------------------------------------------------------
(* Characters and strings *)

\* ASCII codes of the characters the model writes
Code ==
    ("a" :> 97) @@ ("b" :> 98) @@ ("e" :> 101) @@ ("h" :> 104) @@ ("l" :> 108)
    @@ ("m" :> 109) @@ ("n" :> 110) @@ ("s" :> 115) @@ ("u" :> 117)
    @@ ("A" :> 65) @@ ("B" :> 66) @@ ("d" :> 100) @@ ("f" :> 102) @@ ("i" :> 105)
    @@ ("1" :> 49) @@ ("2" :> 50) @@ ("3" :> 51) @@ ("4" :> 52) @@ ("5" :> 53)
    @@ ("6" :> 54)
    @@ ("{" :> 123) @@ ("}" :> 125) @@ ("q" :> 34) @@ (":" :> 58) @@ ("," :> 44)
    @@ (">" :> 62) @@ (" " :> 32) @@ ("?" :> 63)

\* the byte string of a sequence of characters ("q" stands for the double quote)
Str(cs) == [i \in 1..Len(cs) |-> Code[cs[i]]]

\* String.prototype.toLowerCase on one ASCII code / SQLite LOWER()
LowerByte(b) == IF b >= 65 /\ b <= 90 THEN b + 32 ELSE b

toLowerCase(s) == [i \in 1..Len(s) |-> LowerByte(s[i])]

\* s < t in the binary (memcmp) order SQLite and JavaScript use for text
RECURSIVE StrLess(_, _)
StrLess(s, t) ==
    IF Len(t) = 0 THEN FALSE
    ELSE IF Len(s) = 0 THEN TRUE
    ELSE IF s[1] # t[1] THEN s[1] < t[1]
    ELSE StrLess(Tail(s), Tail(t))

\* all strings over alphabet A of length 0..n
RECURSIVE StringsUpTo(_, _)
StringsUpTo(A, n) ==
    IF n = 0 THEN {<<>>}
    ELSE LET shorter == StringsUpTo(A, n - 1)
         IN  shorter \cup {Append(s, c) : s \in shorter, c \in A}

-----------------------------------------------------------------------------
(* base64: Buffer.from(s, 'utf-8').toString('base64') and                  *)
(* Buffer.from(s, 'base64').  A base64 text is a sequence of symbols:      *)
(* 0..63 the alphabet (62 is '+', 63 is '/'), PadSym is '=', DashSym '-',  *)
(* UnderSym '_'.                                                           *)

PadSym == 64
DashSym == 65
UnderSym == 66

ByteAt(bytes, i) == IF i <= Len(bytes) THEN bytes[i] ELSE 0

\* the k-th output symbol (1-based) of the base64 encoding of bytes
Base64Symbol(bytes, k) ==
    LET g  == (k - 1) \div 4
        p  == (k - 1) % 4
        b1 == ByteAt(bytes, 3 * g + 1)
        b2 == ByteAt(bytes, 3 * g + 2)
        b3 == ByteAt(bytes, 3 * g + 3)
    IN  CASE p = 0 -> b1 \div 4
          [] p = 1 -> (b1 % 4) * 16 + (b2 \div 16)
          [] p = 2 -> IF 3 * g + 2 > Len(bytes) THEN PadSym
                      ELSE (b2 % 16) * 4 + (b3 \div 64)
          [] p = 3 -> IF 3 * g + 3 > Len(bytes) THEN PadSym
                      ELSE b3 % 64

Base64Encode(bytes) ==
    [k \in 1..(4 * ((Len(bytes) + 2) \div 3)) |-> Base64Symbol(bytes, k)]

\* Node's decoder reads both alphabets and stops at the first '='
Sextet(sym) ==
    CASE sym = DashSym -> 62
      [] sym = UnderSym -> 63
      [] OTHER -> sym

RECURSIVE Sextets(_)
Sextets(text) ==
    IF Len(text) = 0 \/ text[1] = PadSym THEN <<>>
    ELSE <<Sextet(text[1])>> \o Sextets(Tail(text))

Base64Decode(text) ==
    LET s == Sextets(text)
        at(i) == IF i <= Len(s) THEN s[i] ELSE 0
    IN  [j \in 1..((3 * Len(s)) \div 4) |->
            LET g == (j - 1) \div 3
                p == (j - 1) % 3
            IN  CASE p = 0 -> at(4 * g + 1) * 4 + (at(4 * g + 2) \div 16)
                  [] p = 1 -> (at(4 * g + 2) % 16) * 16 + (at(4 * g + 3) \div 4)
                  [] p = 2 -> (at(4 * g + 3) % 4) * 64 + at(4 * g + 4)]

\* a mutant of toUrlSafeBase64: '+' is rewritten to '_' like '/'
RECURSIVE toUrlSafeBase64_plusAsUnder(_)
toUrlSafeBase64_plusAsUnder(base64) ==
    IF Len(base64) = 0 THEN <<>>
    ELSE LET c == base64[1]
             rest == toUrlSafeBase64_plusAsUnder(Tail(base64))
         IN  CASE c = 62 -> <<UnderSym>> \o rest
               [] c = 63 -> <<UnderSym>> \o rest
               [] c = PadSym -> rest
               [] OTHER -> <<c>> \o rest

\* base64.replace(/\+/g, '-').replace(/\//g, '_').replace(/=/g, '')
RECURSIVE toUrlSafeBase64(_)
toUrlSafeBase64(base64) ==
    IF Len(base64) = 0 THEN <<>>
    ELSE LET c == base64[1]
             rest == toUrlSafeBase64(Tail(base64))
         IN  CASE c = 62 -> <<DashSym>> \o rest
               [] c = 63 -> <<UnderSym>> \o rest
               [] c = PadSym -> rest
               [] OTHER -> <<c>> \o rest

RECURSIVE PadToFour(_)
PadToFour(base64) ==
    IF Len(base64) % 4 # 0 THEN PadToFour(Append(base64, PadSym)) ELSE base64

\* urlSafe.replace(/-/g, '+').replace(/_/g, '/'), then '=' until length % 4 = 0
fromUrlSafeBase64(urlSafe) ==
    PadToFour([i \in 1..Len(urlSafe) |->
                  CASE urlSafe[i] = DashSym -> 62
                    [] urlSafe[i] = UnderSym -> 63
                    [] OTHER -> urlSafe[i]])

-----------------------------------------------------------------------------
(* JavaScript values and JSON text *)

JStr(bytes) == [t |-> "string", v |-> bytes]
JNum(digits) == [t |-> "number", v |-> digits]
JNull == [t |-> "null", v |-> <<>>]
JUndefined == [t |-> "undefined", v |-> <<>>]
JSyntaxError == [t |-> "SyntaxError", v |-> <<>>]

Quote == Code["q"]

\* JSON.stringify({ name, hash }) for two strings that need no escaping
JSONStringifyCursor(name, hash) ==
    Str(<<"{", "q", "n", "a", "m", "e", "q", ":", "q">>) \o name
    \o Str(<<"q", ",", "q", "h", "a", "s", "h", "q", ":", "q">>) \o hash
    \o Str(<<"q", "}">>)

\* index of the first double quote of b at or after i, 0 when there is none
RECURSIVE NextQuote(_, _)
NextQuote(b, i) ==
    IF i > Len(b) THEN 0
    ELSE IF b[i] = Quote THEN i
    ELSE NextQuote(b, i + 1)

\* index after the run of digits of b that starts at i
RECURSIVE DigitsEnd(_, _)
DigitsEnd(b, i) ==
    IF i <= Len(b) /\ b[i] >= 48 /\ b[i] <= 57 THEN DigitsEnd(b, i + 1) ELSE i

IsNullAt(b, i) ==
    /\ i + 3 <= Len(b)
    /\ SubSeq(b, i, i + 3) = Str(<<"n", "u", "l", "l">>)

\* a JSON scalar of b at i: [ok, val, next]
ParseScalar(b, i) ==
    IF i <= Len(b) /\ b[i] = Quote
    THEN LET j == NextQuote(b, i + 1)
         IN  IF j = 0 THEN [ok |-> FALSE, val |-> JSyntaxError, next |-> i]
             ELSE [ok |-> TRUE, val |-> JStr(SubSeq(b, i + 1, j - 1)), next |-> j + 1]
    ELSE IF DigitsEnd(b, i) > i
    THEN [ok |-> TRUE, val |-> JNum(SubSeq(b, i, DigitsEnd(b, i) - 1)),
          next |-> DigitsEnd(b, i)]
    ELSE IF IsNullAt(b, i)
    THEN [ok |-> TRUE, val |-> JNull, next |-> i + 4]
    ELSE [ok |-> FALSE, val |-> JSyntaxError, next |-> i]

SetMember(obj, key, val) ==
    IF key = Str(<<"n", "a", "m", "e">>) THEN [obj EXCEPT !.name = val]
    ELSE IF key = Str(<<"h", "a", "s", "h">>) THEN [obj EXCEPT !.hash = val]
    ELSE obj

RECURSIVE ParseMembers(_, _, _)

\* after the value v of a member: '}' ends the text, ',' goes on
AfterValue(b, v, o) ==
    IF ~v.ok \/ v.next > Len(b) THEN JSyntaxError
    ELSE IF b[v.next] = Code["}"]
    THEN IF v.next = Len(b) THEN o ELSE JSyntaxError
    ELSE IF b[v.next] = Code[","] THEN ParseMembers(b, v.next + 1, o)
    ELSE JSyntaxError

\* after the key k of a member: a string, a colon and the value
AfterKey(b, k, obj) ==
    IF ~k.ok \/ k.val.t # "string" \/ k.next > Len(b) \/ b[k.next] # Code[":"]
    THEN JSyntaxError
    ELSE LET v == ParseScalar(b, k.next + 1)
         IN  AfterValue(b, v, SetMember(obj, k.val.v, v.val))

\* the members  "key":scalar , ...  }  of b from i, added to obj
ParseMembers(b, i, obj) == AfterKey(b, ParseScalar(b, i), obj)

EmptyObject == [t |-> "object", name |-> JUndefined, hash |-> JUndefined]

\* JSON.parse on a scalar or on a flat object (only its name and hash members
\* are kept); anything else is a SyntaxError
JSONParse(b) ==
    IF Len(b) = 0 THEN JSyntaxError
    ELSE IF b[1] = Code["{"]
    THEN IF b = Str(<<"{", "}">>) THEN EmptyObject ELSE ParseMembers(b, 2, EmptyObject)
    ELSE LET s == ParseScalar(b, 1)
         IN  IF s.ok /\ s.next = Len(b) + 1 THEN s.val ELSE JSyntaxError

-----------------------------------------------------------------------------
(* Cursor codec (pagination.ts) *)

\* the value no cursor decodes to
NoCursorData == JNull

\* decoded.name.toLowerCase() throws unless decoded is an object (or a string,
\* whose .name is undefined) and decoded.name is a string
DecodeThrows(decoded) ==
    \/ decoded.t \in {"SyntaxError", "null"}
    \/ decoded.t # "object"
    \/ decoded.name.t # "string"

\* { name: decoded.name.toLowerCase(), hash: decoded.hash }, or the null of
\* the catch
DecodedData(decoded) ==
    IF DecodeThrows(decoded) THEN NoCursorData
    ELSE [name |-> JStr(toLowerCase(decoded.name.v)), hash |-> decoded.hash]

decodeCursor(cursor) ==
    IF Len(cursor) = 0 THEN NoCursorData
    ELSE LET standardBase64 == fromUrlSafeBase64(cursor)
             decodedString == Base64Decode(standardBase64)
             decoded == JSONParse(decodedString)
         IN  DecodedData(decoded)

encodeCursor(data) ==
    LET jsonString == JSONStringifyCursor(data.name.v, data.hash.v)
        base64 == Base64Encode(jsonString)
    IN  toUrlSafeBase64(base64)

-----------------------------------------------------------------------------
(* Cursor codec harness: a caller encodes a composite key and decodes the  *)
(* token it got.                                                           *)

\* characters of the keys' names: upper and lower case, and the two whose
\* codes give the base64 symbols '+' and '/'
NameAlphabet == {Code["a"], Code["A"], Code[">"], Code["?"]}

CursorNames == StringsUpTo(NameAlphabet, MaxNameLen)

\* md5 hex digests, cut short
CursorHashes == {Str(<<"1">>), Str(<<"2", "a">>)}

CInit ==
    /\ cpc = "start"
    /\ cx \in {[name |-> JStr(n), hash |-> JStr(h)] : n \in CursorNames, h \in CursorHashes}
    /\ ctoken = <<>>
    /\ cdecoded = JNull

CEncode ==
    /\ cpc = "start"
    /\ ctoken' = encodeCursor(cx)
    /\ cpc' = "encoded"
    /\ UNCHANGED <<cx, cdecoded, notc>>

CDecode ==
    /\ cpc = "encoded"
    /\ cdecoded' = decodeCursor(ctoken)
    /\ cpc' = "decoded"
    /\ UNCHANGED <<cx, ctoken, notc>>

CNext == CEncode \/ CDecode

\* C8 as stated: decodeCursor(encodeCursor(x)) returns exactly x, the same
\* name and the same hash, whatever the letter case of the name.
C8_RoundTripExact ==
    cpc = "decoded" => cdecoded = cx

\* C8 as amended: decodeCursor(encodeCursor(x)) returns x's hash unchanged and
\* x's name in lower case; it returns exactly x if and only if the name holds
\* no upper-case letter.
C8_RoundTripLowercasesName ==
    cpc = "decoded" =>
        /\ cdecoded = [name |-> JStr(toLowerCase(cx.name.v)), hash |-> cx.hash]
        /\ (cdecoded = cx) <=> (toLowerCase(cx.name.v) = cx.name.v)

\* C8 witness: a key with an upper-case letter in its name went through the
\* codec, and its token held a '+' that the URL-safe form rewrote to '-'.
C8_Witness ==
    /\ cpc = "decoded"
    /\ toLowerCase(cx.name.v) # cx.name.v
    /\ \E i \in 1..Len(ctoken) : ctoken[i] = DashSym

-----------------------------------------------------------------------------
(* Streaming flattener (parse.ts) *)

\* parentHash (string | null) of a top-level entry
Null == JNull

\* createHash('md5').update(s).digest('hex'): the digest is taken to be
\* injective and stands as the digested string itself
md5(s) == s

\* `${value}` of an attribute value: a missing attribute reads 'undefined'
TemplateString(value) ==
    IF value.t = "undefined" THEN Str(<<"u", "n", "d", "e", "f", "i", "n", "e", "d">>)
    ELSE value.v

\* wnid is an attribute value (a string, or undefined when the element has
\* no such attribute), path a string
generateHash(wnid, path) ==
    LET compositeKey == TemplateString(wnid) \o Str(<<":", ":">>) \o path
    IN  md5(compositeKey)

\* Array.prototype.join's text of one element: empty for undefined
JoinItem(value) == IF value.t = "undefined" THEN <<>> ELSE value.v

\* parts.join(' > ')
RECURSIVE Join(_)
Join(parts) ==
    IF Len(parts) = 0 THEN <<>>
    ELSE IF Len(parts) = 1 THEN JoinItem(parts[1])
    ELSE JoinItem(parts[1]) \o Str(<<" ", ">", " ">>) \o Join(Tail(parts))

WordsOf(frames) == [i \in 1..Len(frames) |-> frames[i].words]

\* opentag: push the frame, then count it as a child of the frame below
PushFrame(stk, attributes) ==
    LET pushed == Append(stk, [wnid |-> attributes.wnid,
                               words |-> attributes.words,
                               childCount |-> 0])
    IN  IF Len(pushed) > 1
        THEN [pushed EXCEPT ![Len(pushed) - 1].childCount = @ + 1]
        ELSE pushed

\* a mutant of ParentHash: the frame below is looked for one level too deep
ParentHash_offByOne(rest) ==
    IF Len(rest) > 1
    THEN JStr(generateHash(rest[Len(rest)].wnid, Join(WordsOf(rest))))
    ELSE Null

\* a mutant of ParentHash: the parent's path is its own words only
ParentHash_ownWords(rest) ==
    IF Len(rest) > 0
    THEN JStr(generateHash(rest[Len(rest)].wnid, JoinItem(rest[Len(rest)].words)))
    ELSE Null

\* closetag: the parent's hash, from the frames still open after the pop
ParentHash(rest) ==
    IF Len(rest) > 0
    THEN LET parentPath == Join(WordsOf(rest))
             parent == rest[Len(rest)]
         IN  JStr(generateHash(parent.wnid, parentPath))
    ELSE Null

\* closetag: the entry of the popped frame
MakeEntry(current, rest) ==
    LET path == Join(Append(WordsOf(rest), current.words))
    IN  [hash |-> generateHash(current.wnid, path),
         parentHash |-> ParentHash(rest),
         name |-> path,
         size |-> current.childCount]

\* a mutant of Propagate: the popped frame's count is not added to its parent
Propagate_dropped(rest, current) == rest

\* closetag: add the popped frame's count to the frame below
Propagate(rest, current) ==
    IF Len(rest) > 0
    THEN [rest EXCEPT ![Len(rest)].childCount = @ + current.childCount]
    ELSE rest

Wnids == {Str(<<"1">>), Str(<<"2">>)}
WordsSet == {Str(<<"a">>), Str(<<"b">>)}

\* node.attributes of a synset element with both attributes
FullAttributes ==
    {[wnid |-> JStr(wnid), words |-> JStr(words)] : wnid \in Wnids, words \in WordsSet}

\* node.attributes of a synset element without wnid, or without words
LackingAttributes ==
    {[wnid |-> JUndefined, words |-> JStr(Str(<<"a">>))],
     [wnid |-> JStr(Str(<<"1">>)), words |-> JUndefined]}

\* the attributes the next synset element of the stream may have, when
\* opened synset elements came before it
AttributesAfter(opened) ==
    IF opened < MaxLacking THEN FullAttributes \cup LackingAttributes
    ELSE FullAttributes

PInit ==
    /\ stack = <<>>
    /\ entries = <<>>
    /\ pstate = "pending"
    /\ tags = <<>>
    /\ gstack = <<>>
    /\ gparent = <<>>
    /\ gentry = <<>>
    /\ gattrs = <<>>
    /\ closes = 0
    /\ others = 0

\* saxStream.on('opentag') for a synset element
OpenSynset ==
    /\ pstate = "pending"
    /\ Len(gparent) < MaxSynsets
    /\ \E attributes \in AttributesAfter(Len(gparent)) :
          /\ stack' = PushFrame(stack, attributes)
          /\ gattrs' = Append(gattrs, attributes)
    /\ tags' = Append(tags, "synset")
    /\ gparent' = Append(gparent, IF Len(gstack) = 0 THEN 0 ELSE gstack[Len(gstack)])
    /\ gstack' = Append(gstack, Len(gparent) + 1)
    /\ UNCHANGED <<entries, pstate, gentry, closes, others, notp>>

\* saxStream.on('opentag') for any other element: node.name # 'synset'
OpenOther ==
    /\ pstate = "pending"
    /\ others < MaxOthers
    /\ tags' = Append(tags, "other")
    /\ others' = others + 1
    /\ UNCHANGED <<stack, entries, pstate, gstack, gparent, gentry, gattrs, closes, notp>>

\* a mutant of Emit: entries.unshift(entry)
Emit_unshift(list, entry) == <<entry>> \o list

\* entries.push(entry)
Emit(list, entry) == Append(list, entry)

\* a mutant of CloseTag: the entry is made from the top frame, which is
\* left on the stack
CloseTag_noPop ==
    /\ pstate = "pending"
    /\ Len(tags) > 0
    /\ tags' = SubSeq(tags, 1, Len(tags) - 1)
    /\ IF tags[Len(tags)] = "synset"
       THEN LET current == stack[Len(stack)]
                rest == SubSeq(stack, 1, Len(stack) - 1)
            IN  /\ entries' = Emit(entries, MakeEntry(current, rest))
                /\ stack' = stack
                /\ gentry' = Emit(gentry, gstack[Len(gstack)])
                /\ gstack' = SubSeq(gstack, 1, Len(gstack) - 1)
                /\ closes' = closes + 1
       ELSE UNCHANGED <<stack, entries, gstack, gentry, closes>>
    /\ UNCHANGED <<pstate, gparent, gattrs, others, notp>>

\* saxStream.on('closetag'): the parser closes its innermost open element
CloseTag ==
    /\ pstate = "pending"
    /\ Len(tags) > 0
    /\ tags' = SubSeq(tags, 1, Len(tags) - 1)
    /\ IF tags[Len(tags)] = "synset"
       THEN LET current == stack[Len(stack)]
                rest == SubSeq(stack, 1, Len(stack) - 1)
            IN  /\ entries' = Emit(entries, MakeEntry(current, rest))
                /\ stack' = Propagate(rest, current)
                /\ gentry' = Emit(gentry, gstack[Len(gstack)])
                /\ gstack' = SubSeq(gstack, 1, Len(gstack) - 1)
                /\ closes' = closes + 1
       ELSE UNCHANGED <<stack, entries, gstack, gentry, closes>>
    /\ UNCHANGED <<pstate, gparent, gattrs, others, notp>>

\* a mutant of End: the 'end' handler alone, with no 'error' before it
End_resolves ==
    /\ pstate = "pending"
    /\ pstate' = "resolved"
    /\ UNCHANGED <<stack, entries, tags, gstack, gparent, gentry, gattrs, closes, others, notp>>

\* saxStream.on('end') resolves; on an unclosed element sax emits 'error'
\* first, which rejects
End ==
    /\ pstate = "pending"
    /\ pstate' = IF Len(tags) = 0 THEN "resolved" ELSE "rejected"
    /\ UNCHANGED <<stack, entries, tags, gstack, gparent, gentry, gattrs, closes, others, notp>>

PNext == OpenSynset \/ OpenOther \/ CloseTag \/ End

-----------------------------------------------------------------------------
(* Properties of the flattener *)

\* the elements that enclose synset e, innermost first
RECURSIVE Enclosing(_)
Enclosing(e) ==
    IF gparent[e] = 0 THEN {} ELSE {gparent[e]} \cup Enclosing(gparent[e])

\* the synset elements strictly inside element e
Inside(e) == {d \in 1..Len(gparent) : e \in Enclosing(d)}

\* the hashes on the parentHash chain of an entry, found by looking the
\* parentHash up among the emitted entries (at most fuel links)
RECURSIVE HashChain(_, _)
HashChain(ph, fuel) ==
    IF ph = Null \/ fuel = 0 THEN {}
    ELSE LET at == {i \in 1..Len(entries) : entries[i].hash = ph.v}
         IN  {ph.v} \cup UNION {HashChain(entries[i].parentHash, fuel - 1) : i \in at}

HashesUnique ==
    \A i, j \in 1..Len(entries) : entries[i].hash = entries[j].hash => i = j

TopLevelSynsets == {e \in 1..Len(gparent) : gparent[e] = 0}

C10_OneEntryPerCloseOneRoot ==
    /\ Len(entries) = closes
    /\ (pstate = "resolved" /\ Cardinality(TopLevelSynsets) = 1) =>
          Cardinality({i \in 1..Len(entries) : entries[i].parentHash = Null}) = 1

\* C10 witness: a resolved stream of a wrapper element and one synset tree
\* of three or more elements.
C10_Witness ==
    /\ pstate = "resolved"
    /\ Cardinality(TopLevelSynsets) = 1
    /\ others > 0
    /\ closes >= 3

\* following parentHash from entry i, through every entry that has the hash,
\* ends at a null parentHash within fuel links
RECURSIVE ReachesRoot(_, _)
ReachesRoot(i, fuel) ==
    \/ entries[i].parentHash = Null
    \/ /\ fuel > 0
       /\ \E j \in 1..Len(entries) : JStr(entries[j].hash) = entries[i].parentHash
       /\ \A j \in 1..Len(entries) :
             JStr(entries[j].hash) = entries[i].parentHash => ReachesRoot(j, fuel - 1)

\* C11: once a balanced stream has been resolved, the parentHash of every
\* entry is null exactly for a top-level synset and otherwise the hash of the
\* entry emitted for the enclosing synset; every parentHash is the hash of
\* an emitted entry, and the parentHash links from any entry end at a null
\* parentHash in at most as many steps as there are entries.
C11_ParentHashIsEnclosingEntry ==
    pstate = "resolved" =>
        \A i \in 1..Len(entries) :
            /\ (entries[i].parentHash = Null) <=> (gparent[gentry[i]] = 0)
            /\ entries[i].parentHash # Null =>
                  \E j \in 1..Len(entries) :
                      /\ gentry[j] = gparent[gentry[i]]
                      /\ entries[i].parentHash = JStr(entries[j].hash)
            /\ ReachesRoot(i, Len(entries))

\* C11 witness: a resolved stream with a synset three levels deep, below a
\* non-synset element.
C11_Witness ==
    /\ pstate = "resolved"
    /\ others > 0
    /\ \E i \in 1..Len(entries) :
          /\ gparent[gentry[i]] # 0
          /\ gparent[gparent[gentry[i]]] # 0
          /\ entries[i].parentHash # Null

C15_LackingAttributeNeverResolves ==
    pstate = "resolved" =>
        \A e \in 1..Len(gattrs) :
            gattrs[e].wnid.t = "string" /\ gattrs[e].words.t = "string"

\* C16: the name of every emitted entry is the words attribute of its own
\* element only, not the ' > '-joined path through its ancestors.
C16_NameIsOwnWords ==
    \A i \in 1..Len(entries) :
        gattrs[gentry[i]].words.t = "string" =>
            entries[i].name = gattrs[gentry[i]].words.v

\* the synset elements among the open elements
OpenSynsets == SelectSeq(tags, LAMBDA t : t = "synset")

\* the stack holds the attributes of the open synset elements, outermost first
OneFramePerOpenSynset ==
    /\ Len(stack) = Len(OpenSynsets)
    /\ Len(stack) = Len(gstack)
    /\ \A k \in 1..Len(stack) :
          /\ stack[k].wnid = gattrs[gstack[k]].wnid
          /\ stack[k].words = gattrs[gstack[k]].words
          /\ k > 1 => gparent[gstack[k]] = gstack[k - 1]
    /\ pstate = "resolved" => Len(stack) = 0

\* the stack grows by one frame on the open event of a synset only, shrinks
\* by one frame on the close event of a synset only, and changes its length
\* in no other way
StackStep ==
    /\ Len(stack') > Len(stack) =>
          /\ Len(stack') = Len(stack) + 1
          /\ tags' = Append(tags, "synset")
    /\ Len(stack') < Len(stack) =>
          /\ Len(stack') = Len(stack) - 1
          /\ tags = Append(tags', "synset")
    /\ Len(stack') = Len(stack) => Len(OpenSynsets') = Len(OpenSynsets)

\* C22: at every point of the stream the stack holds one frame per open
\* synset element, in root-to-leaf order; it grows by one only on an open
\* event, shrinks by one only on a close event, and is empty when a balanced
\* stream has ended.
C22_StackIsOpenSynsets == []OneFramePerOpenSynset /\ [][StackStep]_vars

\* C22 witness: three synset elements are open inside one another, below an
\* element that is no synset, after an entry was emitted.
C22_Witness ==
    /\ Len(stack) = 3
    /\ Len(tags) = 4
    /\ closes > 0
    /\ pstate = "pending"

\* element a encloses synset d
RECURSIVE Encloses(_, _)
Encloses(a, d) ==
    IF gparent[d] = 0 THEN FALSE
    ELSE gparent[d] = a \/ Encloses(a, gparent[d])

\* the entry of an element comes after the entries of all the elements
\* inside it and before the entry of the element enclosing it, whose hash is
\* its parentHash; the last entry of a resolved stream is that of a
\* top-level element
PostOrder ==
    /\ \A i, j \in 1..Len(entries) :
          Encloses(gentry[j], gentry[i]) => i < j
    /\ \A i \in 1..Len(entries) :
          \A d \in 1..Len(gparent) :
              Encloses(gentry[i], d) => \E k \in 1..(i - 1) : gentry[k] = d
    /\ (pstate = "resolved" /\ Len(entries) > 0) =>
          /\ gparent[gentry[Len(entries)]] = 0
          /\ \A i \in 1..Len(entries) :
                entries[i].parentHash # Null =>
                    \E j \in (i + 1)..Len(entries) :
                        /\ gentry[j] = gparent[gentry[i]]
                        /\ JStr(entries[j].hash) = entries[i].parentHash

\* an entry once emitted keeps its place in the list
EntriesKeepPlace ==
    /\ Len(entries') >= Len(entries)
    /\ \A i \in 1..Len(entries) : entries'[i] = entries[i]

\* C24: the entries are emitted in post-order: the entry of an element comes
\* after the entries of all the elements inside it and before the entry of
\* the element enclosing it, whose hash is its parentHash; an entry once
\* emitted keeps its place; the last entry of a resolved stream is that of a
\* top-level element.
C24_PostOrder == []PostOrder /\ [][EntriesKeepPlace]_vars

\* C24 witness: a resolved stream of four synset elements whose first entry
\* is three levels deep and whose grandparent has a second child, emitted
\* later.
C24_Witness ==
    /\ pstate = "resolved"
    /\ Len(entries) = MaxSynsets
    /\ gparent[gentry[1]] # 0
    /\ gparent[gparent[gentry[1]]] # 0
    /\ \E i \in 3..Len(entries) : gparent[gentry[i]] = gparent[gparent[gentry[1]]]
                                     /\ gentry[i] # gparent[gentry[1]]

\* C12: once a balanced stream has been resolved, no two emitted entries
\* have the same hash (the digest being injective on wnid::path).
C12_HashesDistinct ==
    pstate = "resolved" =>
        \A i, j \in 1..Len(entries) :
            i # j => entries[i].hash # entries[j].hash

-----------------------------------------------------------------------------
(* The nodes table and its queries (SQLite) *)

Min(a, b) == IF a < b THEN a ELSE b

\* LIMIT k: a negative k is no limit
Take(rows, k) == IF k < 0 THEN rows ELSE SubSeq(rows, 1, Min(k, Len(rows)))

\* ORDER BY LOWER(name) ASC, hash ASC: a sorts before b
KeyLess(a, b) ==
    \/ StrLess(toLowerCase(a.name), toLowerCase(b.name))
    \/ /\ toLowerCase(a.name) = toLowerCase(b.name)
       /\ StrLess(a.hash, b.hash)

\* the rows of S in ORDER BY LOWER(name) ASC, hash ASC (hash is the primary key)
RECURSIVE SortRows(_)
SortRows(S) ==
    IF S = {} THEN <<>>
    ELSE LET first == CHOOSE x \in S : \A y \in S \ {x} : KeyLess(x, y)
         IN  <<first>> \o SortRows(S \ {first})

\* a mutant of AfterCursor: the hash tie-break admits the cursor's own row
AfterCursor_inclusive(row, cursorName, cursorHash) ==
    \/ StrLess(cursorName, toLowerCase(row.name))
    \/ /\ toLowerCase(row.name) = cursorName
       /\ cursorHash.t = "string"
       /\ ~StrLess(row.hash, cursorHash.v)

\* LOWER(name) > ? OR (LOWER(name) = ? AND hash > ?), the parameters bound to
\* the string cursorName and to cursorHash, a string or null (hash > NULL is
\* not true)
AfterCursor(row, cursorName, cursorHash) ==
    \/ StrLess(cursorName, toLowerCase(row.name))
    \/ /\ toLowerCase(row.name) = cursorName
       /\ cursorHash.t = "string"
       /\ StrLess(cursorHash.v, row.hash)

\* SELECT * FROM nodes WHERE parent_hash = ? [AND after the cursor]
\* ORDER BY LOWER(name) ASC, hash ASC LIMIT ?
SelectChildren(hash, hasCursor, cursorName, cursorHash, limit) ==
    Take(SortRows({n \in nodes :
                      /\ n.parentHash = JStr(hash)
                      /\ hasCursor => AfterCursor(n, cursorName, cursorHash)}),
         limit)

\* String.prototype.trim
RECURSIVE Trim(_)
Trim(s) ==
    IF Len(s) > 0 /\ s[1] = Code[" "] THEN Trim(Tail(s))
    ELSE IF Len(s) > 0 /\ s[Len(s)] = Code[" "] THEN Trim(SubSeq(s, 1, Len(s) - 1))
    ELSE s

\* text LIKE '%term'
EndsWith(text, term) ==
    /\ Len(term) <= Len(text)
    /\ SubSeq(text, Len(text) - Len(term) + 1, Len(text)) = term

\* text LIKE '%term%'
Contains(text, term) ==
    \E i \in 0..(Len(text) - Len(term)) : SubSeq(text, i + 1, i + Len(term)) = term

\* WHERE LOWER(n.name) LIKE '%term'
LikeSuffix(term) == {n \in nodes : EndsWith(toLowerCase(n.name), term)}

\* WHERE LOWER(n.name) LIKE '%term%'
LikeInfix(term) == {n \in nodes : Contains(toLowerCase(n.name), term)}

\* search_matches: the rows whose LOWER(name) is LIKE the pattern, after the
\* cursor, in row_num order
SearchMatches(like, hasCursor, cursorName, cursorHash) ==
    SortRows({n \in like : hasCursor => AfterCursor(n, cursorName, cursorHash)})

\* a mutant of AncestorPaths: the recursive step stops at the match's parent
RECURSIVE AncestorPaths_oneLevel(_, _, _)
AncestorPaths_oneLevel(row, depth, match_hash) ==
    {[hash |-> row.hash, parentHash |-> row.parentHash, name |-> row.name,
      size |-> row.size, depth |-> depth, match_hash |-> match_hash]}
    \cup IF depth >= 1 THEN {}
         ELSE UNION {AncestorPaths_oneLevel(n, depth + 1, match_hash) :
                        n \in {n \in nodes : JStr(n.hash) = row.parentHash}}

\* ancestor_paths of one match: the match at depth 0, then recursively the
\* row joined ON n.hash = ap.parent_hash at depth + 1
RECURSIVE AncestorPaths(_, _, _)
AncestorPaths(row, depth, match_hash) ==
    {[hash |-> row.hash, parentHash |-> row.parentHash, name |-> row.name,
      size |-> row.size, depth |-> depth, match_hash |-> match_hash]}
    \cup UNION {AncestorPaths(n, depth + 1, match_hash) :
                   n \in {n \in nodes : JStr(n.hash) = row.parentHash}}

\* ORDER BY match_hash, depth DESC
PathLess(a, b) ==
    \/ StrLess(a.match_hash, b.match_hash)
    \/ a.match_hash = b.match_hash /\ a.depth > b.depth

RECURSIVE SortPaths(_)
SortPaths(S) ==
    IF S = {} THEN <<>>
    ELSE LET first == CHOOSE x \in S : \A y \in S \ {x} : PathLess(x, y)
         IN  <<first>> \o SortPaths(S \ {first})

SeqToSet(q) == {q[i] : i \in 1..Len(q)}

\* SELECT ap.* FROM ancestor_paths ap ORDER BY ap.match_hash, ap.depth DESC
SelectPaths(paginated) ==
    SortPaths(UNION {AncestorPaths(m, 0, m.hash) : m \in SeqToSet(paginated)})

\* deduplicated_paths WHERE rn = 1: of the rows of one hash, the one first
\* in ORDER BY depth ASC, matchHash ASC
Deduplicated(paths) ==
    {r \in paths :
        \A o \in paths :
            (o.hash = r.hash /\ o # r) =>
                \/ r.depth < o.depth
                \/ r.depth = o.depth /\ StrLess(r.match_hash, o.match_hash)}

\* the later revision's SELECT ... FROM deduplicated_paths dp WHERE dp.rn = 1
\* ORDER BY dp.matchHash, dp.depth DESC
SelectDeduplicatedPaths(paginated) ==
    SortPaths(Deduplicated(
        UNION {AncestorPaths(m, 0, m.hash) : m \in SeqToSet(paginated)}))

-----------------------------------------------------------------------------
(* The handlers of main.ts *)

DefaultLimit == 10

\* parseInt(query.limit) || 10; the parameter 0 stands for an absent,
\* non-numeric or zero limit
ParseLimit(limitParam) == IF limitParam = 0 THEN DefaultLimit ELSE limitParam

\* JavaScript truthiness of a value read from the cursor
Truthy(v) ==
    \/ v.t = "string" /\ Len(v.v) > 0
    \/ v.t = "number" /\ \E i \in 1..Len(v.v) : v.v[i] # Code["1"] - 1

\* res.status(400).json({ error: 'Invalid cursor format' })
InvalidCursor ==
    [status |-> 400, data |-> <<>>, hasMore |-> FALSE, nextCursor |-> <<>>]

\* res.status(500): an exception thrown while the query runs
ServerError ==
    [status |-> 500, data |-> <<>>, hasMore |-> FALSE, nextCursor |-> <<>>]

\* res.json({ data: [], pagination: { limit, hasMore: false } })
EmptyPage ==
    [status |-> 200, data |-> <<>>, hasMore |-> FALSE, nextCursor |-> <<>>]

\* cursorName = decoded.name.toLowerCase(), cursorHash = decoded.hash, or
\* the exception the catch turns into HTTP 400
InlineFields(decoded) ==
    IF DecodeThrows(decoded)
    THEN [threw |-> TRUE, cursorName |-> JNull, cursorHash |-> JNull]
    ELSE [threw |-> FALSE,
          cursorName |-> JStr(toLowerCase(decoded.name.v)),
          cursorHash |-> decoded.hash]

\* the handlers' own decoding of the cursor parameter
InlineCursor(cursor) ==
    IF Len(cursor) = 0
    THEN [threw |-> FALSE, cursorName |-> JNull, cursorHash |-> JNull]
    ELSE InlineFields(JSONParse(Base64Decode(cursor)))

\* Buffer.from(JSON.stringify({ name, hash })).toString('base64')
InlineToken(item) == Base64Encode(JSONStringifyCursor(item.name, item.hash))

Last(q) == q[Len(q)]

\* Array.prototype.pop: the array without its last element
Popped(q) == SubSeq(q, 1, Len(q) - 1)

\* child.size > 0 ? `/entries/${child.hash}/children` : null
ChildrenUrl(row) == IF row.size > 0 THEN JStr(row.hash) ELSE JNull

\* res.status(404): the table has no row with parent_hash IS NULL
RootNotFound ==
    [status |-> 404, data |-> <<>>, hasMore |-> FALSE, nextCursor |-> <<>>]

\* SELECT * FROM nodes WHERE parent_hash IS NULL
SelectRoots == {n \in nodes : n.parentHash = JNull}

\* { ...parent, children_url: `/entries/${parent.hash}/children` }
RootJson(parent) ==
    [hash |-> parent.hash, parentHash |-> parent.parentHash, name |-> parent.name,
     size |-> parent.size, children_url |-> JStr(parent.hash)]

\* GET /entries: the root entry as the one node of the response, which has
\* no pagination part
EntriesRoot ==
    IF SelectRoots = {} THEN RootNotFound
    ELSE [status |-> 200, data |-> <<RootJson(CHOOSE n \in SelectRoots : TRUE)>>,
          hasMore |-> FALSE, nextCursor |-> <<>>]

\* hasCursor = cursorName && cursorHash
HasCursor(dec) == Truthy(dec.cursorName) /\ Truthy(dec.cursorHash)

\* children.map((child) => ({ ...child, children_url }))
ChildJson(child) ==
    [hash |-> child.hash, parentHash |-> child.parentHash, name |-> child.name,
     size |-> child.size, children_url |-> ChildrenUrl(child)]

ChildJsons(rows) == [i \in 1..Len(rows) |-> ChildJson(rows[i])]

\* hasMore = children.length > limit; when hasMore, lastItem = children.pop()
\* and nextCursor is the token of lastItem; the response carries what is left
\* of children
ChildrenResponse(children, limit) ==
    LET hasMore == Len(children) > limit
        found == hasMore /\ Len(children) > 0
    IN  [status |-> 200,
         data |-> ChildJsons(IF found THEN Popped(children) ELSE children),
         hasMore |-> hasMore,
         nextCursor |-> IF found THEN InlineToken(Last(children)) ELSE <<>>]

\* after the cursor block: 400 when it threw, the query and the page otherwise
ChildrenAfterInline(hash, limit, dec) ==
    IF dec.threw THEN InvalidCursor
    ELSE ChildrenResponse(
             SelectChildren(hash, HasCursor(dec), dec.cursorName.v,
                            dec.cursorHash, limit + 1),
             limit)

\* GET /entries/:hash/children
EntriesChildren(hash, limitParam, cursor) ==
    ChildrenAfterInline(hash, ParseLimit(limitParam), InlineCursor(cursor))

\* a mutant of RowNumUpTo: the row has_more_flag looks for is kept as well
RowNumUpTo_extra(matches, limit) ==
    IF limit < 0 THEN <<>> ELSE SubSeq(matches, 1, Min(limit + 1, Len(matches)))

\* paginated_matches: row_num <= limit
RowNumUpTo(matches, limit) ==
    IF limit < 0 THEN <<>> ELSE SubSeq(matches, 1, Min(limit, Len(matches)))

\* a mutant of HasMoreFlag: the flag looks for row_num = limit
HasMoreFlag_atLimit(matches, limit) == limit >= 1 /\ limit <= Len(matches)

\* has_more_flag: EXISTS(row_num = limit + 1)
HasMoreFlag(matches, limit) == limit + 1 >= 1 /\ limit + 1 <= Len(matches)

\* queryResult.filter((row) => row.depth === 0)
Depth0(rows) == SelectSeq(rows, LAMBDA r : r.depth = 0)

\* queryResult.map((row) => ({ ...row, children_url }))
SearchJson(row) ==
    [hash |-> row.hash, parentHash |-> row.parentHash, name |-> row.name,
     size |-> row.size, depth |-> row.depth, match_hash |-> row.match_hash,
     children_url |-> ChildrenUrl(row)]

SearchJsons(rows) == [i \in 1..Len(rows) |-> SearchJson(rows[i])]

\* hasMore is the has_more column of the first row; when hasMore, nextCursor
\* is the token of the last row of depth 0; no row at all is the empty page
SearchResponse(queryResult, has_more) ==
    LET hasMore == Len(queryResult) > 0 /\ has_more
        found == hasMore /\ Len(Depth0(queryResult)) > 0
    IN  IF Len(queryResult) = 0 THEN EmptyPage
        ELSE [status |-> 200,
              data |-> SearchJsons(queryResult),
              hasMore |-> hasMore,
              nextCursor |-> IF found THEN InlineToken(Last(Depth0(queryResult)))
                             ELSE <<>>]

\* the search statement: search_matches, paginated_matches, has_more_flag
\* and ancestor_paths
SearchQuery(search_matches, limit) ==
    SearchResponse(SelectPaths(RowNumUpTo(search_matches, limit)),
                   HasMoreFlag(search_matches, limit))

\* a mutant of SearchAfterInline: the cursor is looked at before q
SearchAfterInline_cursorFirst(q, limit, dec) ==
    IF dec.threw THEN InvalidCursor
    ELSE IF Len(Trim(q)) = 0 THEN EmptyPage
    ELSE SearchQuery(
             SearchMatches(LikeSuffix(toLowerCase(Trim(q))), HasCursor(dec),
                           dec.cursorName.v, dec.cursorHash),
             limit)

\* the empty page for a blank q, 400 when the cursor block threw, the query
\* and the page otherwise
SearchAfterInline(q, limit, dec) ==
    IF Len(Trim(q)) = 0 THEN EmptyPage
    ELSE IF dec.threw THEN InvalidCursor
    ELSE SearchQuery(
             SearchMatches(LikeSuffix(toLowerCase(Trim(q))), HasCursor(dec),
                           dec.cursorName.v, dec.cursorHash),
             limit)

\* GET /entries/search
EntriesSearch(q, limitParam, cursor) ==
    SearchAfterInline(q, ParseLimit(limitParam), InlineCursor(cursor))

-----------------------------------------------------------------------------
(* The handlers of the later revision, which use pagination.ts and        *)
(* deduplicate the ancestor rows                                           *)

\* buildPaginationResponse: nextCursor is set when hasMore && lastItem
BuildNextCursor(hasMore, hasLastItem, lastItem) ==
    IF hasMore /\ hasLastItem
    THEN encodeCursor([name |-> JStr(lastItem.name), hash |-> JStr(lastItem.hash)])
    ELSE <<>>

\* binding undefined to a statement parameter throws a TypeError
BindThrows(decodedCursor) ==
    decodedCursor # NoCursorData /\ decodedCursor.hash.t = "undefined"

ChildJson2(child) ==
    [hash |-> child.hash, parentHash |-> child.parentHash, name |-> child.name,
     size |-> child.size, childrenUrl |-> ChildrenUrl(child)]

ChildJson2s(rows) == [i \in 1..Len(rows) |-> ChildJson2(rows[i])]

\* hasMore, lastItem = hasMore ? children.pop() : null, and the response
ChildrenResponse2(children, limit) ==
    LET hasMore == Len(children) > limit
        found == hasMore /\ Len(children) > 0
    IN  [status |-> 200,
         data |-> ChildJson2s(IF found THEN Popped(children) ELSE children),
         hasMore |-> hasMore,
         nextCursor |-> BuildNextCursor(hasMore, found,
                            IF found THEN Last(children) ELSE JNull)]

\* the statement with the cursor condition when hasCursor, without it otherwise
SelectChildren2(hash, decodedCursor, limit) ==
    IF decodedCursor # NoCursorData
    THEN SelectChildren(hash, TRUE, decodedCursor.name.v, decodedCursor.hash, limit)
    ELSE SelectChildren(hash, FALSE, <<>>, JNull, limit)

\* after decodeCursor: 400 for a cursor that did not decode, 500 when the
\* statement throws, the page otherwise
ChildrenAfterDecode(hash, limit, cursor, decodedCursor) ==
    IF Len(cursor) > 0 /\ decodedCursor = NoCursorData THEN InvalidCursor
    ELSE IF BindThrows(decodedCursor) THEN ServerError
    ELSE ChildrenResponse2(SelectChildren2(hash, decodedCursor, limit + 1), limit)

\* { ...parent, childrenUrl: `/entries/${parent.hash}/children` }
RootJson2(parent) ==
    [hash |-> parent.hash, parentHash |-> parent.parentHash, name |-> parent.name,
     size |-> parent.size, childrenUrl |-> JStr(parent.hash)]

\* GET /entries, later revision
EntriesRoot2 ==
    IF SelectRoots = {} THEN RootNotFound
    ELSE [status |-> 200, data |-> <<RootJson2(CHOOSE n \in SelectRoots : TRUE)>>,
          hasMore |-> FALSE, nextCursor |-> <<>>]

\* GET /entries/:hash/children, later revision
EntriesChildren2(hash, limitParam, cursor) ==
    ChildrenAfterDecode(hash, ParseLimit(limitParam), cursor, decodeCursor(cursor))

SearchJson2(row) ==
    [hash |-> row.hash, name |-> row.name, size |-> row.size,
     parentHash |-> row.parentHash, depth |-> row.depth,
     childrenUrl |-> ChildrenUrl(row)]

SearchJson2s(rows) == [i \in 1..Len(rows) |-> SearchJson2(rows[i])]

SearchResponse2(queryResult, has_more) ==
    LET hasMore == Len(queryResult) > 0 /\ has_more
        found == hasMore /\ Len(Depth0(queryResult)) > 0
    IN  IF Len(queryResult) = 0 THEN EmptyPage
        ELSE [status |-> 200,
              data |-> SearchJson2s(queryResult),
              hasMore |-> hasMore,
              nextCursor |-> BuildNextCursor(hasMore, found,
                                 IF found THEN Last(Depth0(queryResult))
                                 ELSE JNull)]

SearchQuery2(search_matches, limit) ==
    SearchResponse2(SelectDeduplicatedPaths(RowNumUpTo(search_matches, limit)),
                    HasMoreFlag(search_matches, limit))

SearchMatches2(searchTerm, decodedCursor) ==
    IF decodedCursor # NoCursorData
    THEN SearchMatches(LikeInfix(searchTerm), TRUE, decodedCursor.name.v,
                       decodedCursor.hash)
    ELSE SearchMatches(LikeInfix(searchTerm), FALSE, <<>>, JNull)

SearchAfterDecode(q, limit, cursor, decodedCursor) ==
    IF Len(Trim(q)) = 0 THEN EmptyPage
    ELSE IF Len(cursor) > 0 /\ decodedCursor = NoCursorData THEN InvalidCursor
    ELSE IF BindThrows(decodedCursor) THEN ServerError
    ELSE SearchQuery2(SearchMatches2(toLowerCase(Trim(q)), decodedCursor), limit)

\* GET /entries/search, later revision
EntriesSearch2(q, limitParam, cursor) ==
    SearchAfterDecode(q, ParseLimit(limitParam), cursor, decodeCursor(cursor))

-----------------------------------------------------------------------------
(* The children handler of the first revision, GET /entries/:parentHash   *)

DefaultLimit1 == 5

\* parseInt(query.limit) || 5
ParseLimit1(limitParam) == IF limitParam = 0 THEN DefaultLimit1 ELSE limitParam

ChildJson1(child) ==
    [hash |-> child.hash, parentHash |-> child.parentHash, name |-> child.name,
     size |-> child.size, childrenUrl |-> ChildrenUrl(child)]

ChildJson1s(rows) == [i \in 1..Len(rows) |-> ChildJson1(rows[i])]

\* Array.prototype.slice(0, end): a negative end counts from the end
Slice(rows, end) ==
    IF end >= 0 THEN SubSeq(rows, 1, Min(end, Len(rows)))
    ELSE SubSeq(rows, 1, Len(rows) + end)

\* hasMore = children.length > limit; when hasMore, children is
\* children.slice(0, limit) and nextCursor the token of its last element;
\* lastItem.name throws when the slice is empty
ChildrenResponse1(children, limit) ==
    LET hasMore == Len(children) > limit
        sliced == Slice(children, limit)
    IN  IF hasMore /\ Len(sliced) = 0 THEN ServerError
        ELSE [status |-> 200,
              data |-> ChildJson1s(IF hasMore THEN sliced ELSE children),
              hasMore |-> hasMore,
              nextCursor |-> IF hasMore THEN InlineToken(Last(sliced)) ELSE <<>>]

ChildrenAfterInline1(parentHash, limit, dec) ==
    IF dec.threw THEN InvalidCursor
    ELSE ChildrenResponse1(
             SelectChildren(parentHash, HasCursor(dec), dec.cursorName.v,
                            dec.cursorHash, limit + 1),
             limit)

\* GET /entries/:parentHash, first revision
EntriesChildren1(parentHash, limitParam, cursor) ==
    ChildrenAfterInline1(parentHash, ParseLimit1(limitParam), InlineCursor(cursor))

\* GET /entries, first revision: { ...parent, childrenUrl: `/entries/${parent.hash}` }
EntriesRoot1 ==
    IF SelectRoots = {} THEN RootNotFound
    ELSE [status |-> 200, data |-> <<RootJson2(CHOOSE n \in SelectRoots : TRUE)>>,
          hasMore |-> FALSE, nextCursor |-> <<>>]

-----------------------------------------------------------------------------
(* The store the server is started on, and a client of its endpoints      *)

StoreNames == {Str(<<"a">>), Str(<<"A">>), Str(<<"b", "a">>)}

\* the parent of every row but the first, which is the root
StoreShapes ==
    {p \in [2..StoreSize -> 1..(StoreSize - 1)] : \A i \in 2..StoreSize : p[i] < i}

\* the hash of row i: hex digests rise with i, or fall when rev
HashOf(i, rev) == <<Code["1"] + (IF rev THEN StoreSize - i ELSE i - 1)>>

RECURSIVE RowAncestors(_, _)
RowAncestors(p, i) == IF i = 1 THEN {} ELSE {p[i]} \cup RowAncestors(p, p[i])

\* the table the flattener's output loads: one root, every parentHash the
\* hash of a row, size the number of rows below
Store(p, nm, rev) ==
    {[hash |-> HashOf(i, rev),
      parentHash |-> IF i = 1 THEN JNull ELSE JStr(HashOf(p[i], rev)),
      name |-> nm[i],
      size |-> Cardinality({j \in 2..StoreSize : i \in RowAncestors(p, j)})]
        : i \in 1..StoreSize}

\* the table loaded from a stream of one synset: the root and nothing below
RootOnly(name) ==
    {[hash |-> HashOf(1, FALSE), parentHash |-> JNull, name |-> name, size |-> 0]}

Stores ==
    {Store(p, nm, rev) :
        p \in StoreShapes, nm \in [1..StoreSize -> StoreNames], rev \in BOOLEAN}
    \cup {RootOnly(name) : name \in StoreNames}

\* a hash no row has
UnknownHash == Str(<<"6">>)

\* search parameters q: the end of every name, the middle of some, padded and
\* in another case the whole of some, blank, and empty, which is also the
\* absent parameter (both fail the !q test)
Queries ==
    {Str(<<"a">>), Str(<<"B">>), Str(<<" ", "B", "a", " ">>), Str(<<" ">>), <<>>}

\* parseInt takes a sign: limit + 1 = 0 is LIMIT 0, below that no LIMIT
NegativeLimits == {-1, -2}

\* limit parameters: 0 is the absent limit
LimitParams == (0..MaxLimit) \cup NegativeLimits

Requests ==
    {[endpoint |-> "children", rev |-> rev, arg |-> h, limit |-> l] :
        rev \in {"first", "main", "later"},
        h \in {n.hash : n \in nodes} \cup {UnknownHash},
        l \in LimitParams}
    \cup
    {[endpoint |-> "search", rev |-> rev, arg |-> q, limit |-> l] :
        rev \in {"main", "later"}, q \in Queries, l \in LimitParams}

\* cursor parameters a client may make up: base64 of JSON texts that are not
\* a {name, hash} pair of strings, base64 of no JSON at all, and two cursors
\* in the server's format
ProbeTokens ==
    {Base64Encode(Str(<<"{", "q", "n", "a", "m", "e", "q", ":", "q", "a", "q", "}">>)),
     Base64Encode(Str(<<"{", "q", "h", "a", "s", "h", "q", ":", "q", "1", "q", "}">>)),
     Base64Encode(Str(<<"{", "}">>)),
     Base64Encode(Str(<<"n", "u", "l", "l">>)),
     Base64Encode(Str(<<"{", "q", "n", "a", "m", "e", "q", ":", "5", ",",
                        "q", "h", "a", "s", "h", "q", ":", "q", "1", "q", "}">>)),
     Base64Encode(Str(<<"{", "q", "n", "a", "m", "e", "q", ":", "q", "a", "q", ",",
                        "q", "h", "a", "s", "h", "q", ":", "n", "u", "l", "l", "}">>)),
     Base64Encode(Str(<<"a", "b">>)),
     InlineToken([name |-> Str(<<"A">>), hash |-> Str(<<"1">>)]),
     encodeCursor([name |-> JStr(Str(<<"a">>)), hash |-> JStr(Str(<<"2">>))])}

\* the handler a request is routed to
Respond(r, cursor) ==
    CASE r.endpoint = "children" /\ r.rev = "first" ->
            EntriesChildren1(r.arg, r.limit, cursor)
      [] r.endpoint = "children" /\ r.rev = "main" ->
            EntriesChildren(r.arg, r.limit, cursor)
      [] r.endpoint = "children" /\ r.rev = "later" ->
            EntriesChildren2(r.arg, r.limit, cursor)
      [] r.endpoint = "search" /\ r.rev = "main" ->
            EntriesSearch(r.arg, r.limit, cursor)
      [] r.endpoint = "search" /\ r.rev = "later" ->
            EntriesSearch2(r.arg, r.limit, cursor)

NoRequest == [endpoint |-> "none", rev |-> "none", arg |-> <<>>, limit |-> 0]

SInit ==
    /\ nodes \in Stores
    /\ spc = "idle"
    /\ req = NoRequest
    /\ sent = <<>>
    /\ resp = EmptyPage
    /\ pages = <<>>

\* the client takes an answer as one more page of its session
TakePage(answer, sofar) ==
    /\ resp' = answer
    /\ pages' = Append(sofar, answer.data)
    /\ spc' = IF answer.hasMore THEN "paging" ELSE "done"

\* the client asks for a first page, without a cursor
FirstPage ==
    /\ spc = "idle"
    /\ \E r \in Requests :
          /\ req' = r
          /\ TakePage(Respond(r, <<>>), <<>>)
    /\ sent' = <<>>
    /\ UNCHANGED <<nodes, nots>>

\* the client repeats its request with the nextCursor it was given
NextPage ==
    /\ spc = "paging"
    /\ Len(resp.nextCursor) > 0
    /\ sent' = resp.nextCursor
    /\ TakePage(Respond(req, resp.nextCursor), pages)
    /\ UNCHANGED <<nodes, req, nots>>

\* a client sends a cursor parameter of its own making
Probe ==
    /\ spc = "idle"
    /\ \E r \in Requests, token \in ProbeTokens :
          /\ req' = r
          /\ sent' = token
          /\ resp' = Respond(r, token)
    /\ spc' = "probed"
    /\ UNCHANGED <<nodes, pages, nots>>

\* the root endpoint of each revision
RespondRoot(rev) ==
    CASE rev = "first" -> EntriesRoot1
      [] rev = "main" -> EntriesRoot
      [] rev = "later" -> EntriesRoot2

\* the client asks for the root entry
RootPage ==
    /\ spc = "idle"
    /\ \E rev \in {"first", "main", "later"} :
          /\ req' = [endpoint |-> "root", rev |-> rev, arg |-> <<>>, limit |-> 0]
          /\ TakePage(RespondRoot(rev), <<>>)
    /\ sent' = <<>>
    /\ UNCHANGED <<nodes, nots>>

SNext == FirstPage \/ NextPage \/ Probe \/ RootPage

-----------------------------------------------------------------------------
(* The frontend's tree of search results (utils/treeBuilder.ts)           *)

\* second pass: parent.children.push(node) for every entry whose parentHash
\* is the parent's hash, in the order of the entries
ChildIds(rows, parent) ==
    LET under == SelectSeq(rows, LAMBDA e : e.parentHash = JStr(parent))
    IN  [i \in 1..Len(under) |-> under[i].hash]

\* the ids of the entries with a null parentHash; root is the last of them
RootIds(rows) ==
    LET top == SelectSeq(rows, LAMBDA e : e.parentHash = JNull)
    IN  [i \in 1..Len(top) |-> top[i].hash]

\* buildTree: one node per hash (nodeMap), each with the children pushed to
\* it; the result is [root] or [] when no entry has a null parentHash
buildTree(rows) ==
    [root |-> IF Len(RootIds(rows)) = 0 THEN <<>> ELSE <<Last(RootIds(rows))>>,
     children |-> [id \in {rows[i].hash : i \in 1..Len(rows)} |-> ChildIds(rows, id)]]

-----------------------------------------------------------------------------
(* The frontend's search hook (hooks/useSearch.ts)                         *)

\* what the user may have typed: nothing, two and three characters, three
\* characters between blanks, four and five characters
SearchInputs ==
    {<<>>, Str(<<"a", "b">>), Str(<<"a", "b", "a">>), Str(<<" ", "a", "b", "a", " ">>),
     Str(<<"a", "b", "a", "b">>), Str(<<"a", "b", "a", "b", "a">>)}

\* pagination.cursor when undefined
NoCursor == 0

\* trimmedQuery.length <= 3
TooShort(query) == Len(Trim(query)) <= 3

\* the answer of GET /entries/search to a query and a cursor, as the page
\* number it stands for: one row naming the query and the page
searchEntries(query, cursor) ==
    [data |-> <<[query |-> query, page |-> cursor + 1]>>,
     hasMore |-> cursor + 1 < MaxPages,
     nextCursor |-> IF cursor + 1 < MaxPages THEN cursor + 1 ELSE NoCursor]

\* setSearchResults([]); setPagination({ hasMore: false, isLoading: false })
ClearSearch ==
    /\ searchResults' = <<>>
    /\ searchPagination' = [cursor |-> NoCursor, hasMore |-> FALSE, isLoading |-> FALSE]

\* performSearch up to its await: nothing is asked for a query that is too
\* short, otherwise isLoading is set and searchEntries is called
performSearch(query, cursor, append) ==
    IF TooShort(query)
    THEN ClearSearch /\ UNCHANGED <<fetching, issued>>
    ELSE /\ searchPagination' = [searchPagination EXCEPT !.isLoading = TRUE]
         /\ fetching' = fetching \cup {[id |-> Len(issued) + 1, query |-> Trim(query),
                                        cursor |-> cursor, append |-> append]}
         /\ issued' = Append(issued, [query |-> Trim(query), cursor |-> cursor,
                                      append |-> append])
         /\ UNCHANGED searchResults

UInit ==
    /\ searchQuery = <<>>
    /\ searchResults = <<>>
    /\ searchPagination = [cursor |-> NoCursor, hasMore |-> FALSE, isLoading |-> FALSE]
    /\ timeoutId = <<>>
    /\ fetching = {}
    /\ issued = <<>>

\* the user changes the input: setSearchQuery, then the debounce effect, whose
\* cleanup clears the pending timer
SetSearchQuery ==
    /\ \E query \in SearchInputs \ {searchQuery} :
          /\ searchQuery' = query
          /\ IF TooShort(query)
             THEN ClearSearch /\ timeoutId' = <<>>
             ELSE /\ timeoutId' = <<Trim(query)>>
                  /\ UNCHANGED <<searchResults, searchPagination>>
    /\ UNCHANGED <<fetching, issued, notu>>

\* 300 ms have passed: the timer calls performSearch(trimmedQuery)
Debounced ==
    /\ timeoutId # <<>>
    /\ Len(issued) < MaxSearches
    /\ performSearch(timeoutId[1], NoCursor, FALSE)
    /\ timeoutId' = <<>>
    /\ UNCHANGED <<searchQuery, notu>>

\* loadMoreSearchResults
LoadMoreSearchResults ==
    /\ ~TooShort(searchQuery)
    /\ searchPagination.hasMore
    /\ ~searchPagination.isLoading
    /\ searchPagination.cursor # NoCursor
    /\ Len(issued) < MaxSearches
    /\ performSearch(Trim(searchQuery), searchPagination.cursor, TRUE)
    /\ UNCHANGED <<searchQuery, timeoutId, notu>>

\* a searchEntries call returns: performSearch after its await
SearchResponds ==
    /\ \E call \in fetching :
          /\ searchResults' =
                IF call.append
                THEN searchResults \o searchEntries(call.query, call.cursor).data
                ELSE searchEntries(call.query, call.cursor).data
          /\ searchPagination' =
                [cursor |-> searchEntries(call.query, call.cursor).nextCursor,
                 hasMore |-> searchEntries(call.query, call.cursor).hasMore,
                 isLoading |-> FALSE]
          /\ fetching' = fetching \ {call}
    /\ UNCHANGED <<searchQuery, timeoutId, issued, notu>>

\* a searchEntries call throws: the catch block of performSearch
SearchFails ==
    /\ \E call \in fetching :
          /\ searchPagination' = [searchPagination EXCEPT !.isLoading = FALSE]
          /\ searchResults' = IF call.append THEN searchResults ELSE <<>>
          /\ fetching' = fetching \ {call}
    /\ UNCHANGED <<searchQuery, timeoutId, issued, notu>>

UNext == SetSearchQuery \/ Debounced \/ LoadMoreSearchResults \/ SearchResponds \/ SearchFails

\* C21: a search request is issued, once the debounce has passed, for every
\* query of at least 3 characters after trimming and for no shorter one;
\* while the query is shorter the results are empty and hasMore is false.
C21_SearchFromThreeCharacters ==
    /\ Len(Trim(searchQuery)) >= 3 =>
          \/ timeoutId = <<Trim(searchQuery)>>
          \/ \E i \in 1..Len(issued) :
                issued[i].query = Trim(searchQuery) /\ ~issued[i].append
    /\ \A i \in 1..Len(issued) : Len(issued[i].query) >= 3
    /\ Len(Trim(searchQuery)) < 3 =>
          searchResults = <<>> /\ ~searchPagination.hasMore

\* C27: once no search request is in flight, the results and the pagination
\* are those of the response to the most recently issued query; results of
\* different queries are never mixed, and the results stay empty while the
\* current query is too short to search.
C27_ResultsOfLatestQuery ==
    /\ (fetching = {} /\ Len(searchResults) > 0) =>
          /\ \A i \in 1..Len(searchResults) :
                searchResults[i].query = Last(issued).query
          /\ searchPagination.hasMore =
                (searchResults[Len(searchResults)].page < MaxPages)
    /\ \A i, j \in 1..Len(searchResults) :
          searchResults[i].query = searchResults[j].query
    /\ TooShort(searchQuery) => searchResults = <<>>



RECURSIVE Concat(_)
Concat(pp) == IF Len(pp) = 0 THEN <<>> ELSE Head(pp) \o Concat(Tail(pp))

HashesOf(rows) == [i \in 1..Len(rows) |-> rows[i].hash]

\* the client has an answer to a request of a paging session
InSession == spc \in {"paging", "done"}

\* the limit the handler of request r works with
LimitOf(r) == IF r.rev = "first" THEN ParseLimit1(r.limit) ELSE ParseLimit(r.limit)

\* the JSON value a cursor token carries
CursorKey(token) == JSONParse(Base64Decode(fromUrlSafeBase64(token)))

\* a token that carries an object with a string name and a string hash
WellFormed(token) ==
    LET d == CursorKey(token)
    IN  d.t = "object" /\ d.name.t = "string" /\ d.hash.t = "string"

\* row n is after the position of the cursor the request was sent with
AfterSent(n) ==
    Len(sent) > 0 =>
        AfterCursor(n, toLowerCase(CursorKey(sent).name.v), CursorKey(sent).hash)

\* the direct children of the requested parent, in (LOWER(name), hash) order
ChildrenOf(h) == SortRows({n \in nodes : n.parentHash = JStr(h)})

\* the rows the children statement finds after the cursor of the request
ChildrenAfterSent == SortRows({n \in nodes : n.parentHash = JStr(req.arg) /\ AfterSent(n)})

\* the nodes q matches in the revision of request r; a blank q matches none
Matching(r) ==
    IF Len(Trim(r.arg)) = 0 THEN {}
    ELSE IF r.rev = "main" THEN LikeSuffix(toLowerCase(Trim(r.arg)))
    ELSE LikeInfix(toLowerCase(Trim(r.arg)))

\* the matches of the page the request asks for: the first limit matches
\* after the cursor, in (LOWER(name), hash) order
PageMatches == Take(SortRows({n \in Matching(req) : AfterSent(n)}), LimitOf(req))

RECURSIVE StoreAncestors(_)
\* the hashes of the proper ancestors of row n in the store
StoreAncestors(n) ==
    UNION {{m.hash} \cup StoreAncestors(m) : m \in {m \in nodes : JStr(m.hash) = n.parentHash}}

\* C1: a children session that ran to hasMore = false has returned, page
\* after page, exactly the direct children of the parent in ascending
\* (LOWER(name), hash) order, none twice and none omitted.
C1_PagesAreTheChildren ==
    (spc = "done" /\ req.endpoint = "children") =>
        HashesOf(Concat(pages)) = HashesOf(ChildrenOf(req.arg))

\* C2: when the children statement finds limit + 1 rows after the cursor, the
\* response holds exactly the first limit of them, hasMore is true and
\* nextCursor carries the name and hash of the last row of the response.
C2_CursorIsLastRetainedRow ==
    (/\ InSession
     /\ req.endpoint = "children"
     /\ Len(ChildrenAfterSent) >= LimitOf(req) + 1) =>
        /\ HashesOf(resp.data) = HashesOf(Take(ChildrenAfterSent, LimitOf(req)))
        /\ resp.hasMore
        /\ WellFormed(resp.nextCursor)
        /\ CursorKey(resp.nextCursor).name.v = ChildrenAfterSent[LimitOf(req)].name
        /\ CursorKey(resp.nextCursor).hash.v = ChildrenAfterSent[LimitOf(req)].hash

\* C3: a search session that ran to hasMore = false has returned every
\* matching node exactly once as a row of depth 0.
C3_EveryMatchExactlyOnce ==
    (spc = "done" /\ req.endpoint = "search") =>
        \A m \in Matching(req) :
            Cardinality({i \in 1..Len(Concat(pages)) :
                            /\ Concat(pages)[i].depth = 0
                            /\ Concat(pages)[i].hash = m.hash}) = 1

\* C5: no two rows of the data of one search response have the same hash.
C5_NoDuplicateHash ==
    (InSession /\ req.endpoint = "search") =>
        \A i, j \in 1..Len(resp.data) :
            resp.data[i].hash = resp.data[j].hash => i = j

\* C6: the data of a search response holds, for each of its matches, every
\* node on the parent chain up to the root; every row's parentHash is null
\* or the hash of a row of the same response.
C6_ParentClosed ==
    (spc \in {"paging", "done", "probed"} /\ req.endpoint = "search") =>
        /\ \A i \in 1..Len(resp.data) :
              resp.data[i].depth = 0 =>
                  \A n \in nodes :
                      (n.hash = resp.data[i].hash) =>
                          StoreAncestors(n) \subseteq SeqToSet(HashesOf(resp.data))
        /\ \A i \in 1..Len(resp.data) :
              \/ resp.data[i].parentHash = JNull
              \/ \E j \in 1..Len(resp.data) :
                    JStr(resp.data[j].hash) = resp.data[i].parentHash

\* C6 witness: a search response of the revision that deduplicates, with two
\* matches below one ancestor that is not a match and is returned once.
C6_Witness ==
    /\ InSession /\ req.endpoint = "search" /\ req.rev = "later"
    /\ Len(resp.data) = 3
    /\ Len(Depth0(resp.data)) = 2
    /\ \E i \in 1..3 :
          /\ resp.data[i].depth > 0
          /\ resp.data[i].parentHash = JNull
          /\ \A j \in 1..3 : j # i => resp.data[j].parentHash = JStr(resp.data[i].hash)

\* C7: every row of a search response is one of the matches of the page or a
\* proper ancestor of one of them; no other node is returned, and no match
\* beyond the page limit or an ancestor of such a match.
C7_OnlyMatchesAndTheirAncestors ==
    (InSession /\ req.endpoint = "search") =>
        \A i \in 1..Len(resp.data) :
            \/ resp.data[i].hash \in SeqToSet(HashesOf(PageMatches))
            \/ \E k \in 1..Len(PageMatches) :
                  resp.data[i].hash \in StoreAncestors(PageMatches[k])

\* C7 witness: a page of one match that has more matches after it, returned
\* with an ancestor that is not a match, while the store holds a node that
\* is neither a match of the page nor an ancestor of one.
C7_Witness ==
    /\ InSession /\ req.endpoint = "search" /\ req.rev = "main"
    /\ resp.hasMore
    /\ Len(PageMatches) = 1
    /\ \E i \in 1..Len(resp.data) :
          /\ resp.data[i].depth > 0
          /\ resp.data[i].hash \notin {m.hash : m \in Matching(req)}
    /\ Len(resp.data) < Cardinality(nodes)

\* the request was sent with a cursor that carries a name and a hash, both
\* non-empty strings
CursorGiven ==
    /\ Len(sent) > 0
    /\ WellFormed(sent)
    /\ Len(CursorKey(sent).name.v) > 0
    /\ Len(CursorKey(sent).hash.v) > 0

\* the response answers a request with a page
Answered == spc \in {"paging", "done", "probed"} /\ resp.status = 200

C17_UnknownParentIsEmptyPage ==
    (/\ spc \in {"done", "paging", "probed"}
     /\ req.endpoint = "children"
     /\ \A n \in nodes : n.hash # req.arg
     /\ Len(sent) > 0 => WellFormed(sent)) =>
        /\ resp.status = 200
        /\ resp.data = <<>>
        /\ resp.hasMore = FALSE
        /\ resp.nextCursor = <<>>

\* C18: a search whose q is absent, empty or blank is answered with HTTP 200,
\* no data, hasMore false and no nextCursor, whatever the limit, the cursor
\* parameter (well formed or not) and the rows of the table.
C18_BlankSearchIsEmptyPage ==
    (/\ spc \in {"done", "paging", "probed"}
     /\ req.endpoint = "search"
     /\ Len(Trim(req.arg)) = 0) =>
        resp = EmptyPage

\* C18 witness: a blank and an empty q were answered with a cursor parameter
\* that carries no cursor.
C18_Witness ==
    /\ spc = "probed"
    /\ req.endpoint = "search"
    /\ Len(Trim(req.arg)) = 0
    /\ ~WellFormed(sent)
    /\ req.limit = MaxLimit
    /\ resp = EmptyPage

\* the nodes that match q after the position of the cursor of the request
MatchesAfterSent == {n \in Matching(req) : AfterSent(n)}

UrlOf(row) ==
    IF "children_url" \in DOMAIN row THEN row.children_url ELSE row.childrenUrl

\* C20: every node served by the root, children or search endpoint has a
\* children URL exactly when the table holds a row whose parent it is.
C20_ChildrenUrlIffChildren ==
    (Answered /\ req.endpoint \in {"root", "children", "search"}) =>
        \A i \in 1..Len(resp.data) :
            (UrlOf(resp.data[i]) # JNull) <=> Len(ChildrenOf(resp.data[i].hash)) > 0

\* C23: every page answered by the children or the search endpoint carries
\* a nextCursor exactly when its hasMore is true, for every limit the handler
\* works with, the negative ones included.
C23_NextCursorIffHasMore ==
    (Answered /\ req.endpoint \in {"children", "search"}) =>
        (Len(resp.nextCursor) > 0 <=> resp.hasMore)

\* the tree the frontend shows for the pages of the session so far:
\* searchResults is the first page, then [...prev, ...response.data]
SearchTree == buildTree(Concat(pages))

\* C28: after a search and any number of load-more pages, no node of the
\* tree built from the accumulated results is listed twice among the
\* children of its parent.
C28_TreeListsNodeOnce ==
    (InSession /\ req.endpoint = "search") =>
        \A id \in DOMAIN SearchTree.children :
            \A i, j \in 1..Len(SearchTree.children[id]) :
                SearchTree.children[id][i] = SearchTree.children[id][j] => i = j

\* C9: a cursor parameter that is not empty and does not carry an object
\* with a string name and a string hash is answered with HTTP 400 (a blank
\* search, which is answered before the cursor is read, left aside).
C9_InvalidCursorIs400 ==
    (/\ spc = "probed"
     /\ ~WellFormed(sent)
     /\ req.endpoint = "search" => Len(Trim(req.arg)) > 0) =>
        resp.status = 400

-----------------------------------------------------------------------------
(* The frontend's tree (hooks/useTreeViewIntegration.ts, useTreeData.ts,   *)
(* app.tsx) over a server that holds a root with one child more than a     *)
(* page, the first of which has a child of its own                         *)

RootHash == 1

TreeHashes == 1..(PageSize + 3)

\* the children the server holds for a node, in the order it serves them
TreeChildren(hash) ==
    IF hash = RootHash THEN [i \in 1..(PageSize + 1) |-> i + 1]
    ELSE IF hash = 2 THEN <<PageSize + 3>>
    ELSE <<>>

\* node.size: here the number of children
TreeSize(hash) == Len(TreeChildren(hash))

\* the answer of GET /entries/:hash/children; a cursor stands for the number
\* of children served before it
fetchNodeChildren(hash, cursor) ==
    [data |-> SubSeq(TreeChildren(hash), cursor + 1,
                     Min(cursor + PageSize, TreeSize(hash))),
     hasMore |-> cursor + PageSize < TreeSize(hash),
     nextCursor |-> IF cursor + PageSize < TreeSize(hash) THEN cursor + PageSize
                    ELSE NoCursor]

\* paginationMap.get(hash) || { hasMore: false, isLoading: false, isInitialized: false }
DefaultPagination ==
    [cursor |-> NoCursor, hasMore |-> FALSE, isLoading |-> FALSE, isInitialized |-> FALSE]

\* the hashes of the tree of search results: a match and its ancestors
SearchTreeIds == {RootHash, 2, PageSize + 3}

\* a mutant of NeedsFirstPage: every expansion loads
NeedsFirstPage_always(pagination) == TRUE

\* !pagination?.isInitialized && !pagination?.isLoading
NeedsFirstPage(pagination) == ~pagination.isInitialized /\ ~pagination.isLoading

\* loadNodeChildren up to its await: nothing for a leaf, otherwise isLoading
\* is set and fetchNodeChildren is called
loadNodeChildren(hash, cursor) ==
    IF TreeSize(hash) = 0
    THEN UNCHANGED <<nodePaginationAtom, loading, requested>>
    ELSE /\ nodePaginationAtom' = [nodePaginationAtom EXCEPT ![hash].isLoading = TRUE]
         /\ loading' = loading \cup {[id |-> Len(requested) + 1, hash |-> hash,
                                      cursor |-> cursor,
                                      pagination |-> nodePaginationAtom[hash]]}
         /\ requested' = Append(requested, [hash |-> hash, cursor |-> cursor,
                                            before |-> nodePaginationAtom[hash]])

\* the state after initializeRoot: the root is stored, with its pagination
TInit ==
    /\ nodesAtom = {RootHash}
    /\ nodeChildrenAtom = [hash \in TreeHashes |-> <<>>]
    /\ nodePaginationAtom =
          [hash \in TreeHashes |->
              IF hash = RootHash
              THEN [DefaultPagination EXCEPT !.hasMore = TreeSize(RootHash) > 0]
              ELSE DefaultPagination]
    /\ expandedNodesAtom = {}
    /\ isSearchMode = FALSE
    /\ loading = {}
    /\ requested = <<>>
    /\ failed = {}
    /\ reexpanded = {}

\* handleExpandedChange(item, isExpanded) for a node of the store
HandleExpandedChange ==
    /\ Len(requested) < MaxFetches
    /\ \E hash \in nodesAtom, isExpanded \in BOOLEAN :
          /\ expandedNodesAtom' = IF isExpanded THEN expandedNodesAtom \cup {hash}
                                                ELSE expandedNodesAtom \ {hash}
          /\ IF isExpanded /\ TreeSize(hash) > 0
                /\ NeedsFirstPage(nodePaginationAtom[hash])
             THEN loadNodeChildren(hash, NoCursor)
             ELSE UNCHANGED <<nodePaginationAtom, loading, requested>>
          /\ reexpanded' =
                IF isExpanded /\ nodePaginationAtom[hash].isInitialized
                   /\ hash \notin expandedNodesAtom
                THEN reexpanded \cup {hash} ELSE reexpanded
    /\ UNCHANGED <<nodesAtom, nodeChildrenAtom, isSearchMode, failed, nott>>

\* a mutant of CanLoadMore: a node that is loading loads more
CanLoadMore_whileLoading(pagination) ==
    pagination.hasMore /\ pagination.cursor # NoCursor

\* pagination?.hasMore && !pagination.isLoading && pagination.cursor
CanLoadMore(pagination) ==
    pagination.hasMore /\ ~pagination.isLoading /\ pagination.cursor # NoCursor

\* handleLoadMore(item) outside search mode (in search mode it hands over to
\* loadMoreSearchResults)
HandleLoadMore ==
    /\ ~isSearchMode
    /\ Len(requested) < MaxFetches
    /\ \E hash \in nodesAtom :
          /\ CanLoadMore(nodePaginationAtom[hash])
          /\ loadNodeChildren(hash, nodePaginationAtom[hash].cursor)
    /\ UNCHANGED <<nodesAtom, nodeChildrenAtom, expandedNodesAtom, isSearchMode,
                   failed, reexpanded, nott>>

\* a fetchNodeChildren call returns: loadNodeChildren after its await
ChildrenRespond ==
    /\ \E call \in loading :
          /\ nodesAtom' = nodesAtom \cup SeqToSet(fetchNodeChildren(call.hash, call.cursor).data)
          /\ nodeChildrenAtom' =
                [nodeChildrenAtom EXCEPT ![call.hash] =
                    IF call.cursor # NoCursor
                    THEN @ \o fetchNodeChildren(call.hash, call.cursor).data
                    ELSE fetchNodeChildren(call.hash, call.cursor).data]
          /\ nodePaginationAtom' =
                [nodePaginationAtom EXCEPT ![call.hash] =
                    [cursor |-> fetchNodeChildren(call.hash, call.cursor).nextCursor,
                     hasMore |-> fetchNodeChildren(call.hash, call.cursor).hasMore,
                     isLoading |-> FALSE,
                     isInitialized |-> TRUE]]
          /\ loading' = loading \ {call}
    /\ UNCHANGED <<expandedNodesAtom, isSearchMode, requested, failed, reexpanded, nott>>

\* a mutant of ResetLoading: the catch block starts the node over
ResetLoading_default(pagination) == DefaultPagination

\* catch: { ...pagination, isLoading: false }
ResetLoading(pagination) == [pagination EXCEPT !.isLoading = FALSE]

\* a fetchNodeChildren call throws: the catch block of loadNodeChildren
ChildrenFail ==
    /\ \E call \in loading :
          /\ nodePaginationAtom' =
                [nodePaginationAtom EXCEPT ![call.hash] = ResetLoading(call.pagination)]
          /\ loading' = loading \ {call}
          /\ failed' = failed \cup {call.id}
    /\ UNCHANGED <<nodesAtom, nodeChildrenAtom, expandedNodesAtom, isSearchMode,
                   requested, reexpanded, nott>>

\* the query gets long enough to search
EnterSearchMode ==
    /\ ~isSearchMode
    /\ isSearchMode' = TRUE
    /\ UNCHANGED <<nodesAtom, nodeChildrenAtom, nodePaginationAtom, expandedNodesAtom,
                   loading, requested, failed, reexpanded, nott>>

\* App's effect in search mode, on a new tree of results:
\* setMultipleExpanded({ hashes: allNodeIds, expanded: true })
AutoExpand ==
    /\ isSearchMode
    /\ expandedNodesAtom' = expandedNodesAtom \cup SearchTreeIds
    /\ UNCHANGED <<nodesAtom, nodeChildrenAtom, nodePaginationAtom, isSearchMode,
                   loading, requested, failed, reexpanded, nott>>

\* the query gets too short to search; App's effect outside search mode:
\* clearAllExpanded()
ExitSearchMode ==
    /\ isSearchMode
    /\ isSearchMode' = FALSE
    /\ expandedNodesAtom' = {}
    /\ UNCHANGED <<nodesAtom, nodeChildrenAtom, nodePaginationAtom, loading, requested,
                   failed, reexpanded, nott>>

TNext ==
    \/ HandleExpandedChange \/ HandleLoadMore \/ ChildrenRespond \/ ChildrenFail
    \/ EnterSearchMode \/ AutoExpand \/ ExitSearchMode

(* Properties of the frontend's tree *)

\* this step starts a first-page request (loadNodeChildren without cursor)
\* for the node
FirstPageStarted(hash) ==
    /\ Len(requested') = Len(requested) + 1
    /\ Last(requested').hash = hash
    /\ Last(requested').cursor = NoCursor

\* this step expands or collapses the node
Toggled(hash) == (hash \in expandedNodesAtom) # (hash \in expandedNodesAtom')

\* C25: a first-page children request is started only for a node whose
\* pagination state is neither isInitialized nor isLoading, and once the
\* first page of a node is stored, a step that collapses or expands the node
\* issues no request and leaves the node's stored children unchanged.
C25_FirstPageOnlyWhenNeeded ==
    [][\A hash \in TreeHashes :
          /\ FirstPageStarted(hash) =>
                /\ ~nodePaginationAtom[hash].isInitialized
                /\ ~nodePaginationAtom[hash].isLoading
          /\ (nodePaginationAtom[hash].isInitialized /\ Toggled(hash)) =>
                /\ requested' = requested
                /\ nodeChildrenAtom'[hash] = nodeChildrenAtom[hash]]_vars

\* a node with children was collapsed and expanded again after its first
\* page: it is expanded, with that page and its one first-page request
C25_Witness ==
    \E hash \in reexpanded :
        /\ hash \in expandedNodesAtom
        /\ TreeSize(hash) > 0
        /\ nodeChildrenAtom[hash] = fetchNodeChildren(hash, NoCursor).data
        /\ Cardinality({i \in 1..Len(requested) :
               requested[i].hash = hash /\ requested[i].cursor = NoCursor}) = 1

\* C26: the step in which a children request fails leaves the node's
\* pagination state with isLoading false and with the cursor, hasMore and
\* isInitialized the node had when the request was started, and changes
\* neither the stored nodes nor the node's stored children.
C26_FailureRestoresPagination ==
    [][\A id \in 1..Len(requested) :
          (id \in failed' /\ id \notin failed) =>
              /\ ~nodePaginationAtom'[requested[id].hash].isLoading
              /\ nodePaginationAtom'[requested[id].hash].cursor =
                    requested[id].before.cursor
              /\ nodePaginationAtom'[requested[id].hash].hasMore =
                    requested[id].before.hasMore
              /\ nodePaginationAtom'[requested[id].hash].isInitialized =
                    requested[id].before.isInitialized
              /\ nodesAtom' = nodesAtom
              /\ nodeChildrenAtom'[requested[id].hash] =
                    nodeChildrenAtom[requested[id].hash]]_vars

\* a load-more request has failed: its node is initialized, not loading, has
\* more children and still holds the cursor the request was made with
C26_Witness ==
    \E id \in failed :
        /\ requested[id].cursor # NoCursor
        /\ \A call \in loading : call.hash # requested[id].hash
        /\ nodePaginationAtom[requested[id].hash] =
              [cursor |-> requested[id].cursor, hasMore |-> TRUE,
               isLoading |-> FALSE, isInitialized |-> TRUE]
        /\ nodeChildrenAtom[requested[id].hash] =
              fetchNodeChildren(requested[id].hash, NoCursor).data

\* outside search mode every expanded node with children has its children
\* loaded or loading
ExpandedAreLoaded ==
    ~isSearchMode =>
        \A hash \in expandedNodesAtom :
            TreeSize(hash) > 0 =>
                \/ nodePaginationAtom[hash].isInitialized
                \/ nodePaginationAtom[hash].isLoading

\* C29: whenever the app is not in search mode, every expanded node with
\* size > 0 has a pagination state with isInitialized or isLoading set, and
\* every step out of search mode empties expandedNodes.
C29_ExpandedAreLoadedOrLoading ==
    /\ []ExpandedAreLoaded
    /\ [][(isSearchMode /\ ~isSearchMode') => expandedNodesAtom' = {}]_vars

\* the calls that were answered
AnsweredCalls ==
    {id \in 1..Len(requested) :
        id \notin failed /\ \A call \in loading : call.id # id}

\* the pages answered to the first n calls that are for the node, in
\* request order, one page for a cursor
RECURSIVE PagesReturned(_, _)
PagesReturned(hash, n) ==
    IF n = 0 THEN <<>>
    ELSE IF /\ requested[n].hash = hash
            /\ n \in AnsweredCalls
            /\ \A id \in 1..(n - 1) :
                  ~(/\ id \in AnsweredCalls
                    /\ requested[id].hash = hash
                    /\ requested[id].cursor = requested[n].cursor)
         THEN PagesReturned(hash, n - 1)
                  \o fetchNodeChildren(hash, requested[n].cursor).data
         ELSE PagesReturned(hash, n - 1)

NoChildTwice(hash) ==
    \A i, j \in 1..Len(nodeChildrenAtom[hash]) :
        nodeChildrenAtom[hash][i] = nodeChildrenAtom[hash][j] => i = j

\* C30 as stated: a node's stored children list holds no hash twice and is
\* the concatenation, in request order, of the pages returned for distinct
\* cursors, and no two children requests of a node have the same cursor.
C30_NoCursorRequestedTwice ==
    \A hash \in TreeHashes :
        /\ NoChildTwice(hash)
        /\ nodeChildrenAtom[hash] = PagesReturned(hash, Len(requested))
        /\ \A i, j \in 1..Len(requested) :
              (/\ requested[i].hash = hash
               /\ requested[j].hash = hash
               /\ requested[i].cursor = requested[j].cursor) => i = j

\* C30, amended: a node's stored children list holds no hash twice and is
\* the concatenation, in request order, of the pages returned for distinct
\* cursors; a node has at most one children request in flight, and a cursor
\* is requested again for a node only after the earlier request with it
\* has failed.
C30_CursorRequestedAgainAfterFailure ==
    \A hash \in TreeHashes :
        /\ NoChildTwice(hash)
        /\ nodeChildrenAtom[hash] = PagesReturned(hash, Len(requested))
        /\ \A c1, c2 \in loading : c1.hash = c2.hash => c1 = c2
        /\ \A i, j \in 1..Len(requested) :
              (/\ i < j
               /\ requested[i].hash = hash
               /\ requested[j].hash = hash
               /\ requested[i].cursor = requested[j].cursor) => i \in failed

\* the root's second page was requested, failed, was requested again and
\* answered: the root holds both pages
C30_Witness ==
    /\ nodeChildrenAtom[RootHash] = TreeChildren(RootHash)
    /\ Len(nodeChildrenAtom[RootHash]) > PageSize
    /\ \E id \in failed :
          requested[id].hash = RootHash /\ requested[id].cursor # NoCursor

-----------------------------------------------------------------------------
(* Specifications: each part of the program runs on its own, the variables *)
(* of the other parts stay idle.                                           *)

CIdle ==
    /\ cpc = "idle"
    /\ cx = [name |-> JStr(<<>>), hash |-> JStr(<<>>)]
    /\ ctoken = <<>>
    /\ cdecoded = JNull

PIdle ==
    /\ stack = <<>>
    /\ entries = <<>>
    /\ pstate = "idle"
    /\ tags = <<>>
    /\ gstack = <<>>
    /\ gparent = <<>>
    /\ gentry = <<>>
    /\ gattrs = <<>>
    /\ closes = 0
    /\ others = 0

SIdle ==
    /\ nodes = {}
    /\ spc = "off"
    /\ req = NoRequest
    /\ sent = <<>>
    /\ resp = EmptyPage
    /\ pages = <<>>

UIdle ==
    /\ searchQuery = <<>>
    /\ searchResults = <<>>
    /\ searchPagination = [cursor |-> NoCursor, hasMore |-> FALSE, isLoading |-> FALSE]
    /\ timeoutId = <<>>
    /\ fetching = {}
    /\ issued = <<>>

TIdle ==
    /\ nodesAtom = {}
    /\ nodeChildrenAtom = <<>>
    /\ nodePaginationAtom = <<>>
    /\ expandedNodesAtom = {}
    /\ isSearchMode = FALSE
    /\ loading = {}
    /\ requested = <<>>
    /\ failed = {}
    /\ reexpanded = {}

InitCursor == CInit /\ PIdle /\ SIdle /\ UIdle /\ TIdle

SpecCursor == InitCursor /\ [][CNext]_vars

InitParse == PInit /\ CIdle /\ SIdle /\ UIdle /\ TIdle

SpecParse == InitParse /\ [][PNext]_vars

InitServer == SInit /\ CIdle /\ PIdle /\ UIdle /\ TIdle

SpecServer == InitServer /\ [][SNext]_vars

InitSearch == UInit /\ CIdle /\ PIdle /\ SIdle /\ TIdle

SpecSearch == InitSearch /\ [][UNext]_vars

InitTree == TInit /\ CIdle /\ PIdle /\ SIdle /\ UIdle

SpecTree == InitTree /\ [][TNext]_vars

=============================================================================
